---- MODULE Spec2Model ----
(***************************************************************************)
(* State-machine model of script.js, the browse page of the YouTube clone: *)
(* theme toggle persisted in localStorage, category chips, a generated     *)
(* list of demo videos, the category/search filter, the debounced search   *)
(* input and the transient "playing" state of a card.                      *)
(*                                                                         *)
(* Strings are sequences of characters, so that toLowerCase, trim and      *)
(* includes are computed character by character as in JavaScript.  A       *)
(* character is written as itself when it is printable ASCII, and by its   *)
(* code point, as in "U+00A0", otherwise (TAB, LF, FF and CR are written   *)
(* "\t", "\n", "\f" and "\r").  The texts of the model are made of ASCII,  *)
(* Latin-1 and the code points named in this module.                       *)
(*                                                                         *)
(* Outside the model: the formatters formatViews and timeAgo and slugify,  *)
(* which only produce the text of a card and of an id.  The page is taken  *)
(* to load with no data-theme attribute and an empty toggle, grid and chip *)
(* list.                                                                   *)
(***************************************************************************)
EXTENDS FiniteSets, Integers, Sequences, TLC

(***************************************************************************)
(* Bounds of the model.                                                    *)
(***************************************************************************)
\* The values Math.random returns during init() are drawn from the
\* NumStreams sequences of SampleStreams.
NumStreams == 2
\* At most MaxPending setTimeout callbacks are pending at a time where the
\* search or the cards are taken alone, and MaxPendingAll where all the
\* handlers of the page run together.
MaxPending == 2
MaxPendingAll == 1
\* Cards at grid positions 1..MaxCardPos receive clicks and key presses.
MaxCardPos == 1
\* Time advances in steps of TickMs milliseconds (or to the next due timer).
TickMs == 125

(***************************************************************************)
(* Config (script.js:13-24).                                               *)
(***************************************************************************)
CATEGORIES ==
  << <<"A","l","l">>,
     <<"M","u","s","i","c">>,
     <<"G","a","m","i","n","g">>,
     <<"N","e","w","s">>,
     <<"S","p","o","r","t","s">>,
     <<"E","d","u","c","a","t","i","o","n">>,
     <<"C","o","m","e","d","y">>,
     <<"T","e","c","h","n","o","l","o","g","y">>,
     <<"L","i","f","e","s","t","y","l","e">> >>

VIDEO_COUNT == 36

(***************************************************************************)
(* String primitives of JavaScript used by the script.                     *)
(***************************************************************************)
\* The cased characters of the texts and what toLowerCase makes of each:
\* A..Z, the capitals of Latin-1, LATIN CAPITAL LETTER I WITH DOT ABOVE
\* (which becomes two characters), KELVIN SIGN and ANGSTROM SIGN.
UpperToLower ==
    "A" :> <<"a">> @@ "B" :> <<"b">> @@ "C" :> <<"c">> @@ "D" :> <<"d">> @@
    "E" :> <<"e">> @@ "F" :> <<"f">> @@ "G" :> <<"g">> @@ "H" :> <<"h">> @@
    "I" :> <<"i">> @@ "J" :> <<"j">> @@ "K" :> <<"k">> @@ "L" :> <<"l">> @@
    "M" :> <<"m">> @@ "N" :> <<"n">> @@ "O" :> <<"o">> @@ "P" :> <<"p">> @@
    "Q" :> <<"q">> @@ "R" :> <<"r">> @@ "S" :> <<"s">> @@ "T" :> <<"t">> @@
    "U" :> <<"u">> @@ "V" :> <<"v">> @@ "W" :> <<"w">> @@ "X" :> <<"x">> @@
    "Y" :> <<"y">> @@ "Z" :> <<"z">> @@ "U+00C0" :> <<"U+00E0">> @@
    "U+00C1" :> <<"U+00E1">> @@ "U+00C2" :> <<"U+00E2">> @@
    "U+00C3" :> <<"U+00E3">> @@ "U+00C4" :> <<"U+00E4">> @@
    "U+00C5" :> <<"U+00E5">> @@ "U+00C6" :> <<"U+00E6">> @@
    "U+00C7" :> <<"U+00E7">> @@ "U+00C8" :> <<"U+00E8">> @@
    "U+00C9" :> <<"U+00E9">> @@ "U+00CA" :> <<"U+00EA">> @@
    "U+00CB" :> <<"U+00EB">> @@ "U+00CC" :> <<"U+00EC">> @@
    "U+00CD" :> <<"U+00ED">> @@ "U+00CE" :> <<"U+00EE">> @@
    "U+00CF" :> <<"U+00EF">> @@ "U+00D0" :> <<"U+00F0">> @@
    "U+00D1" :> <<"U+00F1">> @@ "U+00D2" :> <<"U+00F2">> @@
    "U+00D3" :> <<"U+00F3">> @@ "U+00D4" :> <<"U+00F4">> @@
    "U+00D5" :> <<"U+00F5">> @@ "U+00D6" :> <<"U+00F6">> @@
    "U+00D8" :> <<"U+00F8">> @@ "U+00D9" :> <<"U+00F9">> @@
    "U+00DA" :> <<"U+00FA">> @@ "U+00DB" :> <<"U+00FB">> @@
    "U+00DC" :> <<"U+00FC">> @@ "U+00DD" :> <<"U+00FD">> @@
    "U+00DE" :> <<"U+00FE">> @@ "U+0130" :> <<"i", "U+0307">> @@
    "U+212A" :> <<"k">> @@ "U+212B" :> <<"U+00E5">>

CasedCharacters == DOMAIN UpperToLower

\* The lower-case form of character c.
lowerCaseOf(c) == IF c \in CasedCharacters THEN UpperToLower[c] ELSE <<c>>

\* The lower-case forms of the characters of s from position i on.
RECURSIVE toLowerCaseFrom(_, _)
toLowerCaseFrom(s, i) ==
  IF i > Len(s) THEN <<>> ELSE lowerCaseOf(s[i]) \o toLowerCaseFrom(s, i + 1)

\* String.prototype.toLowerCase: maps each cased character, keeps the others;
\* character for character where no character of s becomes several.
toLowerCase(s) ==
  IF \A i \in 1..Len(s) : Len(lowerCaseOf(s[i])) = 1
    THEN [i \in 1..Len(s) |-> lowerCaseOf(s[i])[1]]
    ELSE toLowerCaseFrom(s, 1)

\* White space and line terminators removed by String.prototype.trim: TAB,
\* LF, VT, FF, CR, SPACE, NO-BREAK SPACE, OGHAM SPACE MARK, the spaces
\* U+2000..U+200A, LINE and PARAGRAPH SEPARATOR, NARROW NO-BREAK SPACE,
\* MEDIUM MATHEMATICAL SPACE, IDEOGRAPHIC SPACE and the BYTE ORDER MARK.
IsWhiteSpace(c) ==
  c \in { "\t", "\n", "U+000B", "\f", "\r", " ", "U+00A0", "U+1680",
           "U+2000", "U+2001", "U+2002", "U+2003", "U+2004", "U+2005",
           "U+2006", "U+2007", "U+2008", "U+2009", "U+200A",
           "U+2028", "U+2029", "U+202F", "U+205F", "U+3000", "U+FEFF" }

RECURSIVE trimStart(_)
trimStart(s) ==
  IF s # <<>> /\ IsWhiteSpace(Head(s)) THEN trimStart(Tail(s)) ELSE s

RECURSIVE trimEnd(_)
trimEnd(s) ==
  IF s # <<>> /\ IsWhiteSpace(s[Len(s)]) THEN trimEnd(SubSeq(s, 1, Len(s) - 1)) ELSE s

\* String.prototype.trim: strips white space from both ends.
trim(s) == trimEnd(trimStart(s))

\* String.prototype.includes: q occurs in s as a contiguous substring.
includes(s, q) ==
  \E k \in 0..(Len(s) - Len(q)) : \A j \in 1..Len(q) : s[k + j] = q[j]

\* Number to its decimal digits, as template literals print it.
RECURSIVE numberToString(_)
numberToString(n) ==
  LET digit == <<"0","1","2","3","4","5","6","7","8","9">>[(n % 10) + 1]
  IN  IF n < 10 THEN <<digit>> ELSE Append(numberToString(n \div 10), digit)

(***************************************************************************)
(* Utilities (script.js:39-40).  The value of a call of Math.random is an  *)
(* input of the run.  A draw x in 0..RandomResolution-1 stands for the     *)
(* double x / RandomResolution of [0, 1).  The resolution is 2^24, above   *)
(* the widest range rand is called with, so that every integer of          *)
(* min..max is the result of rand for some draw, as it is for some double. *)
(***************************************************************************)
RandomResolution == 16777216

\* Math.floor(draw * (max - min + 1)) + min.  The product has up to 48 bits:
\* it is computed exactly from the halves of 12 bits of its factors.
rand(x, min, max) ==
  LET span == max - min + 1
      xh == x \div 4096
      xl == x % 4096
      sh == span \div 4096
      sl == span % 4096
      mid == xh * sl + xl * sh
  IN  xh * sh + mid \div 4096
        + ((mid % 4096) * 4096 + xl * sl) \div RandomResolution + min

pick(x, arr) == arr[rand(x, 0, Len(arr) - 1) + 1]

(***************************************************************************)
(* Data generation (script.js:78-134).  The element "U+2014" stands for    *)
(* the single character EM DASH of the tenth title.                        *)
(***************************************************************************)
sampleTitles ==
  << <<"R","e","l","a","x","i","n","g"," ","L","o","-","f","i"," ","B","e","a","t","s">>,
     <<"T","o","p"," ","1","0"," ","J","a","v","a","S","c","r","i","p","t"," ","T","r","i","c","k","s">>,
     <<"E","p","i","c"," ","G","a","m","e","p","l","a","y"," ","H","i","g","h","l","i","g","h","t","s">>,
     <<"B","r","e","a","k","i","n","g"," ","N","e","w","s"," ","U","p","d","a","t","e">>,
     <<"D","a","i","l","y"," ","W","o","r","k","o","u","t"," ","R","o","u","t","i","n","e">>,
     <<"S","t","a","n","d","-","u","p"," ","C","o","m","e","d","y"," ","S","e","t">>,
     <<"H","o","w"," ","t","o"," ","B","u","i","l","d"," ","a"," ","P","o","r","t","f","o","l","i","o">>,
     <<"G","a","d","g","e","t"," ","R","e","v","i","e","w",":"," ","L","a","t","e","s","t"," ","P","h","o","n","e">>,
     <<"C","o","o","k","i","n","g",":"," ","3","0","-","m","i","n","u","t","e"," ","M","e","a","l","s">>,
     <<"S","t","u","d","y"," ","W","i","t","h"," ","M","e"," ","U+2014"," ","F","o","c","u","s"," ","S","e","s","s","i","o","n">>,
     <<"T","r","a","v","e","l"," ","V","l","o","g",":"," ","H","i","d","d","e","n"," ","G","e","m","s">>,
     <<"B","e","g","i","n","n","e","r"," ","G","u","i","t","a","r"," ","L","e","s","s","o","n">> >>
sampleChannels ==
  << <<"T","e","c","h","F","l","o","w">>,
     <<"D","a","i","l","y","B","e","a","t">>,
     <<"G","a","m","e","S","t","r","e","a","m">>,
     <<"N","e","w","s","N","o","w">>,
     <<"F","i","t","L","i","f","e">>,
     <<"L","a","u","g","h","C","a","s","t">>,
     <<"L","e","a","r","n","H","u","b">>,
     <<"G","i","z","m","o","L","a","b">>,
     <<"K","i","t","c","h","e","n","L","i","t","e">>,
     <<"S","t","u","d","y","C","o","r","n","e","r">>,
     <<"W","a","n","d","e","r","e","r">>,
     <<"A","c","o","u","s","t","i","c","S","o","u","l">> >>

\* One iteration of the loop: the record pushed for index i, d being the ten
\* values Math.random returns to the iteration, in the order of its calls.
\* The id is `vid-${i}-${slug}`; its index prefix is what identifies a record.
videoRecord(i, d) ==
  [ id          |-> i,
    title       |-> pick(d[2], sampleTitles) \o <<" ">> \o numberToString(rand(d[3], 1, 999)),
    channel     |-> pick(d[4], sampleChannels),
    category    |-> pick(d[1], Tail(CATEGORIES)),
    views       |-> rand(d[5], 500, 10000000),
    daysAgo     |-> rand(d[6], 0, 1200),
    thumbId     |-> rand(d[7], 10, 1000),
    avatarId    |-> rand(d[8], 1, 70),
    durationMin |-> rand(d[9], 1, 20),
    durationSec |-> rand(d[10], 0, 59) ]

\* generateVideos(count), randoms being the values Math.random returns to
\* its calls, ten to an iteration.
generateVideos(count, randoms) ==
  [k \in 1..count |-> videoRecord(k - 1, SubSeq(randoms, 10 * k - 9, 10 * k))]

(***************************************************************************)
(* The values Math.random returns to generateVideos.  Any sequence of      *)
(* draws is a possible run (isRandomStream); init() takes the sequence as  *)
(* its input.  The page loads explored take it from SampleStreams, which   *)
(* alternate between a sequence that varies from call to call (computed by *)
(* a linear congruential recurrence) and a sequence of one value repeated, *)
(* so that all the records of the list are alike and most categories have  *)
(* no record.                                                              *)
(***************************************************************************)
isRandomStream(randoms) ==
  /\ DOMAIN randoms = 1..(10 * VIDEO_COUNT)
  /\ \A k \in DOMAIN randoms : randoms[k] \in 0..(RandomResolution - 1)

\* The sample after x in a varying sequence.
sampleNext(x) == (125 * x + 12345) % RandomResolution

\* The n samples after x.
RECURSIVE samples(_, _)
samples(x, n) == IF n = 0 THEN <<>> ELSE <<sampleNext(x)>> \o samples(sampleNext(x), n - 1)

\* The samples for count iterations of the loop, ten each.
RECURSIVE samplesOfLoop(_, _)
samplesOfLoop(x, count) ==
  IF count = 0 THEN <<>> ELSE samples(x, 10) \o samplesOfLoop(samples(x, 10)[10], count - 1)

sameSamples(x, n) == [k \in 1..n |-> x]

\* Sequence s: the odd ones vary, the even ones are constant.
sampleStream(s) ==
  IF s % 2 = 1
    THEN samplesOfLoop((s + 1) \div 2, VIDEO_COUNT)
    ELSE sameSamples(((s \div 2 - 1) * 2396745) % RandomResolution, 10 * VIDEO_COUNT)

SampleStreams == { sampleStream(s) : s \in 1..NumStreams }

(***************************************************************************)
(* State.                                                                  *)
(***************************************************************************)
VARIABLES
  pc,               \* "start" before init() runs, "ready" after, "aborted" if it threw
  storage,          \* localStorage entry "ytcl_theme" (null when absent)
  themeAttr,        \* body attribute data-theme (null when absent)
  toggleText,       \* themeToggle.textContent
  toggleTitle,      \* themeToggle.title
  selectedCategory, \* let selectedCategory (script.js:35)
  videos,           \* let videos (script.js:36)
  searchValue,      \* searchInput.value
  categoryList,     \* children of #categoryList: the chips
  videosGrid,       \* children of #videosGrid: the message or the cards
  activeElement,    \* document.activeElement: body, searchInput or firstCard
  timers,           \* the browser's table of pending setTimeout callbacks
  t,                \* let t of the debounce closure (0 is undefined)
  lastRender,       \* history: category and text read by the last renderVideos
  sinceInput,       \* history: ms since the last input event, up to the wait
  burst,            \* history: input events and debounced renders of the burst
  toggled           \* history: toggleTheme has run

vars ==
  << pc, storage, themeAttr, toggleText, toggleTitle, selectedCategory, videos,
     searchValue, categoryList, videosGrid, activeElement, timers,
     t, lastRender, sinceInput, burst, toggled >>

\* JavaScript null, for an absent storage entry or attribute.
null == "<null>"

(***************************************************************************)
(* Theme (script.js:60-75).  The icons are named by their code points.     *)
(***************************************************************************)
THEMES ==
  [ light |-> [icon |-> "U+1F319", label |-> "Switch to dark theme"],
    dark  |-> [icon |-> "U+2600 U+FE0F", label |-> "Switch to light theme"] ]

\* Keys every object literal inherits from Object.prototype: THEMES[key] is
\* then a function or an object without icon or label, so reading them
\* yields undefined.
ObjectPrototypeKeys ==
  { "constructor", "hasOwnProperty", "isPrototypeOf", "propertyIsEnumerable",
    "toLocaleString", "toString", "valueOf", "__proto__",
    "__defineGetter__", "__defineSetter__", "__lookupGetter__", "__lookupSetter__" }

\* applyTheme without its last line, localStorage.setItem.
applyThemeNotPersisted(theme) ==
  IF theme \in DOMAIN THEMES
    THEN [ threw |-> FALSE, attr |-> theme, text |-> THEMES[theme].icon,
           title |-> THEMES[theme].label, stored |-> storage ]
  ELSE IF theme \in ObjectPrototypeKeys
    THEN [ threw |-> FALSE, attr |-> theme, text |-> "",
           title |-> "undefined", stored |-> storage ]
  ELSE [ threw |-> TRUE, attr |-> theme, text |-> toggleText,
         title |-> toggleTitle, stored |-> storage ]

\* applyTheme(theme): the attribute is written first; THEMES[theme].icon throws
\* a TypeError when THEMES[theme] is undefined, and the rest is then skipped.
\* An undefined icon is assigned to textContent as "" and an undefined label
\* to title as "undefined".
applyTheme(theme) ==
  IF theme \in DOMAIN THEMES
    THEN [ threw |-> FALSE, attr |-> theme, text |-> THEMES[theme].icon,
           title |-> THEMES[theme].label, stored |-> theme ]
  ELSE IF theme \in ObjectPrototypeKeys
    THEN [ threw |-> FALSE, attr |-> theme, text |-> "",
           title |-> "undefined", stored |-> theme ]
  ELSE [ threw |-> TRUE, attr |-> theme, text |-> toggleText,
         title |-> toggleTitle, stored |-> storage ]

\* x || "light" for a string or null x.
orLight(x) == IF x = null \/ x = "" THEN "light" ELSE x

\* toggleTheme(): the theme handed to applyTheme.
toggleTheme == applyTheme(IF orLight(themeAttr) = "light" THEN "dark" ELSE "light")

(***************************************************************************)
(* Filtering and rendering of the videos (script.js:159-226).              *)
(***************************************************************************)
\* createVideoCard(video): the article element, not playing.  The element
\* shows the fields of the record, which its id stands for.
createVideoCard(video) == [tag |-> "article", video |-> video.id, playing |-> FALSE]

\* filterVideosByQuery without the test of the channel.
filterVideosByQueryNoChannel(list, query) ==
  IF query = <<>> THEN list
  ELSE LET q == trim(toLowerCase(query))
       IN  SelectSeq(list, LAMBDA v :
             \/ includes(toLowerCase(v.title), q)
             \/ includes(toLowerCase(v.category), q))

\* query is falsy only when it is the empty string.
filterVideosByQuery(list, query) ==
  IF query = <<>> THEN list
  ELSE LET q == trim(toLowerCase(query))
       IN  SelectSeq(list, LAMBDA v :
             \/ includes(toLowerCase(v.title), q)
             \/ includes(toLowerCase(v.channel), q)
             \/ includes(toLowerCase(v.category), q))

\* The list of renderVideos without the category filter.
filteredListAnyCategory(vs, category, value) == filterVideosByQuery(vs, value)

\* The list renderVideos computes from videos, selectedCategory and the input.
filteredList(vs, category, value) ==
  LET list == IF category # CATEGORIES[1]
                THEN SelectSeq(vs, LAMBDA v : v.category = category)
                ELSE vs
  IN  filterVideosByQuery(list, value)

\* renderVideos without the branch of the empty list.
renderVideosNoMessage(vs, category, value) ==
  LET list == filteredList(vs, category, value)
  IN  [i \in 1..Len(list) |-> createVideoCard(list[i])]

\* The children of #videosGrid after renderVideos().
renderVideos(vs, category, value) ==
  LET list == filteredList(vs, category, value)
  IN  IF Len(list) = 0
        THEN << [tag |-> "p", className |-> "muted"] >>
        ELSE [i \in 1..Len(list) |-> createVideoCard(list[i])]

(***************************************************************************)
(* Timers: setTimeout and clearTimeout on the browser's timer table.       *)
(***************************************************************************)
DebounceWait == 250
PlayingDelay == 600

\* The table is the sequence of the pending timers in the order of their
\* creation.  A handle is an opaque number: setTimeout returns one that is
\* neither pending nor still held by the debounce closure.
freshTimerId(ts) ==
  CHOOSE id \in 1..(Len(ts) + 2) :
    /\ id # t
    /\ \A k \in 1..Len(ts) : ts[k].id # id
    /\ \A j \in 1..(id - 1) : j = t \/ \E k \in 1..Len(ts) : ts[k].id = j

setTimeout(ts, kind, card, delay) ==
  Append(ts, [id |-> freshTimerId(ts), kind |-> kind, card |-> card, remaining |-> delay])

clearTimeout(ts, id) == SelectSeq(ts, LAMBDA x : x.id # id)

\* videosGrid.innerHTML = "" takes the cards out of the document and cancels
\* no timer: the pending revert timer of such a card stays in the table, and
\* its callback will run on an element that is in no grid (card 0).
detached(ts) ==
  [k \in 1..Len(ts) |-> IF ts[k].kind = "playing" THEN [ts[k] EXCEPT !.card = 0] ELSE ts[k]]

\* The card that has the focus loses it to the body when it leaves the
\* document.
blurred(focus) == IF focus = "firstCard" THEN "body" ELSE focus

\* The document's keydown listener (script.js:271-276), reached by every
\* keydown: the key f or F focuses the first card of the grid, if any.
focusAfterKeydown(key, grid, focus) ==
  IF toLowerCase(key) = <<"f">> /\ \E p \in 1..Len(grid) : grid[p].tag = "article"
    THEN "firstCard"
    ELSE focus

\* The effect of renderVideos() within a handler that leaves `ts` pending.
renderNow(ts, category) ==
  /\ videosGrid' = renderVideos(videos, category, searchValue)
  /\ timers' = detached(ts)
  /\ lastRender' = [category |-> category, query |-> searchValue]

(***************************************************************************)
(* Rendering of the chips (script.js:137-157).                             *)
(***************************************************************************)
renderCategories(selected) ==
  [i \in 1..Len(CATEGORIES) |->
     [category |-> CATEGORIES[i], active |-> (CATEGORIES[i] = selected)]]

\* The chip listener assigning the filtered list to videos.
ChipClickKeepsFiltered(i) ==
  /\ pc = "ready"
  /\ i \in 1..Len(categoryList)
  /\ selectedCategory' = categoryList[i].category
  /\ categoryList' = [j \in 1..Len(categoryList) |->
                        [categoryList[j] EXCEPT !.active = (j = i)]]
  /\ videos' = filteredList(videos, categoryList[i].category, searchValue)
  /\ renderNow(timers, categoryList[i].category)
  /\ activeElement' = blurred(activeElement)
  /\ UNCHANGED << pc, storage, themeAttr, toggleText, toggleTitle,
                  searchValue, t, sinceInput,
                  burst, toggled >>

\* The chip listener adding the class to the clicked chip without removing
\* it from the others.
ChipClickKeepsActive(i) ==
  /\ pc = "ready"
  /\ i \in 1..Len(categoryList)
  /\ selectedCategory' = categoryList[i].category
  /\ categoryList' = [categoryList EXCEPT ![i].active = TRUE]
  /\ renderNow(timers, categoryList[i].category)
  /\ activeElement' = blurred(activeElement)
  /\ UNCHANGED << pc, storage, themeAttr, toggleText, toggleTitle, videos,
                  searchValue, t, sinceInput,
                  burst, toggled >>

\* Click listener of the chip at position i.
ChipClick(i) ==
  /\ pc = "ready"
  /\ i \in 1..Len(categoryList)
  /\ selectedCategory' = categoryList[i].category
  /\ categoryList' = [j \in 1..Len(categoryList) |->
                        [categoryList[j] EXCEPT !.active = (j = i)]]
  /\ renderNow(timers, categoryList[i].category)
  /\ activeElement' = blurred(activeElement)
  /\ UNCHANGED << pc, storage, themeAttr, toggleText, toggleTitle, videos,
                  searchValue, t, sinceInput,
                  burst, toggled >>

(***************************************************************************)
(* Cards (script.js:179-189).                                              *)
(***************************************************************************)
\* Click listener of the card at grid position p.
CardClick(p) ==
  /\ pc = "ready"
  /\ p \in 1..Len(videosGrid)
  /\ videosGrid[p].tag = "article"
  /\ videosGrid' = [videosGrid EXCEPT ![p].playing = TRUE]
  /\ timers' = setTimeout(timers, "playing", p, PlayingDelay)
  /\ UNCHANGED << pc, storage, themeAttr, toggleText, toggleTitle,
                  selectedCategory, videos, searchValue, categoryList,
                  activeElement, t, lastRender, sinceInput, burst,
                  toggled >>

\* The keys pressed.
Enter == <<"E","n","t","e","r">>
Space == <<" ">>
Keys == { Enter, Space, <<"a">>, <<"f">>, <<"F">> }

\* keydown on the card at grid position p: the listener of the card clicks
\* it on Enter and Space, then the event reaches the listener of the document.
CardKeydown(p, key) ==
  /\ pc = "ready"
  /\ p \in 1..Len(videosGrid)
  /\ videosGrid[p].tag = "article"
  /\ videosGrid' = IF key = Enter \/ key = Space
                     THEN [videosGrid EXCEPT ![p].playing = TRUE]
                     ELSE videosGrid
  /\ timers' = IF key = Enter \/ key = Space
                 THEN setTimeout(timers, "playing", p, PlayingDelay)
                 ELSE timers
  /\ activeElement' = focusAfterKeydown(key, videosGrid', activeElement)
  /\ UNCHANGED << pc, storage, themeAttr, toggleText, toggleTitle,
                  selectedCategory, videos, searchValue, categoryList,
                  t, lastRender, sinceInput, burst, toggled >>

(***************************************************************************)
(* Search, debounced (script.js:229-237, 255-268).                         *)
(***************************************************************************)
\* The texts typed into the search field: empty, blank, padded with a
\* no-break space and a space and in mixed case (a channel and a category
\* contain it), in upper case with a KELVIN SIGN for its K (a title
\* contains it), and one that nothing contains.
Queries ==
  { <<>>,
    <<" ">>,
    <<"U+00A0","T","e","c","h"," ">>,
    <<"T","R","I","C","U+212A","S">>,
    <<"x","y","z","-","n","o","-","m","a","t","c","h">> }

ShortQueries == { <<>>, <<"U+00A0","T","e","c","h"," ">> }

\* debounce without clearTimeout.
debounceNoCancel(ts, wait) == setTimeout(ts, "debounce", 0, wait)

\* debounce that cancels the pending callback and schedules none.
debounceOnlyCancels(ts, wait) == clearTimeout(ts, t)

\* The closure debounce returns: the pending callback is cancelled and a new
\* one is scheduled; the new table of timers.
debounce(ts, wait) == setTimeout(clearTimeout(ts, t), "debounce", 0, wait)

\* input event of the search field, value being the text of the field at the
\* event (the same text as before or another): onSearchChange.
SearchInput(value) ==
  /\ pc = "ready"
  /\ searchValue' = value
  /\ timers' = debounce(timers, DebounceWait)
  /\ t' = freshTimerId(clearTimeout(timers, t))
  /\ sinceInput' = 0
  /\ burst' = IF \E k \in 1..Len(timers) : timers[k].kind = "debounce"
                THEN [burst EXCEPT !.inputs = IF @ < 2 THEN @ + 1 ELSE @]
                ELSE [inputs |-> 1, renders |-> 0]
  /\ UNCHANGED << pc, storage, themeAttr, toggleText, toggleTitle,
                  selectedCategory, videos, categoryList, videosGrid,
                  activeElement, lastRender, toggled >>

\* keydown in the search field: its listener renders on Enter, then the
\* event reaches the listener of the document.
SearchKeydown(key) ==
  /\ pc = "ready"
  /\ IF key = Enter
       THEN /\ renderNow(timers, selectedCategory)
            /\ activeElement' = focusAfterKeydown(key, videosGrid', blurred(activeElement))
       ELSE /\ activeElement' = focusAfterKeydown(key, videosGrid, activeElement)
            /\ UNCHANGED << videosGrid, timers, lastRender >>
  /\ UNCHANGED << pc, storage, themeAttr, toggleText, toggleTitle,
                  selectedCategory, videos, searchValue, categoryList,
                  t, sinceInput, burst, toggled >>

\* keydown anywhere else in the page: the listener of the document alone.
DocumentKeydown(key) ==
  /\ pc = "ready"
  /\ activeElement' = focusAfterKeydown(key, videosGrid, activeElement)
  /\ UNCHANGED << pc, storage, themeAttr, toggleText, toggleTitle,
                  selectedCategory, videos, searchValue, categoryList,
                  videosGrid, timers, t, lastRender, sinceInput, burst,
                  toggled >>

\* click listener of the search button.
SearchBtnClick ==
  /\ pc = "ready"
  /\ renderNow(timers, selectedCategory)
  /\ activeElement' = "searchInput"
  /\ UNCHANGED << pc, storage, themeAttr, toggleText, toggleTitle,
                  selectedCategory, videos, searchValue, categoryList,
                  t, sinceInput, burst, toggled >>

(***************************************************************************)
(* The event loop: time passes, and a due timer runs its callback.  Timers *)
(* run when due, in the order of their creation among those due together.  *)
(***************************************************************************)
minRemaining ==
  CHOOSE m \in {timers[k].remaining : k \in 1..Len(timers)} :
    \A k \in 1..Len(timers) : m <= timers[k].remaining

\* Time advances by d ms, never past the next due timer.
Tick(d) ==
  /\ d > 0
  /\ d <= minRemaining
  /\ timers' = [k \in 1..Len(timers) |-> [timers[k] EXCEPT !.remaining = @ - d]]
  /\ sinceInput' = IF sinceInput + d > DebounceWait THEN DebounceWait ELSE sinceInput + d
  /\ UNCHANGED << pc, storage, themeAttr, toggleText, toggleTitle,
                  selectedCategory, videos, searchValue, categoryList,
                  videosGrid, activeElement, t, lastRender,
                  burst, toggled >>

\* The timer at position k is due and no timer created before it is.
isNextDue(k) ==
  /\ timers[k].remaining = 0
  /\ \A j \in 1..(k - 1) : timers[j].remaining # 0

\* The table without the timer at position k.
withoutTimer(k) == SubSeq(timers, 1, k - 1) \o SubSeq(timers, k + 1, Len(timers))

\* Callback of the debounce timer: fn.apply(this, args), that is renderVideos().
DebounceTimerFire ==
  \E k \in 1..Len(timers) :
    /\ isNextDue(k)
    /\ timers[k].kind = "debounce"
    /\ renderNow(withoutTimer(k), selectedCategory)
    /\ activeElement' = blurred(activeElement)
    /\ burst' = [burst EXCEPT !.renders = IF @ < 2 THEN @ + 1 ELSE @]
    /\ UNCHANGED << pc, storage, themeAttr, toggleText, toggleTitle,
                    selectedCategory, videos, searchValue, categoryList,
                    t, sinceInput, toggled >>

\* Callback of a card's timer: card.classList.remove("playing").
PlayingTimerFire ==
  \E k \in 1..Len(timers) :
    /\ isNextDue(k)
    /\ timers[k].kind = "playing"
    /\ timers' = withoutTimer(k)
    /\ videosGrid' = IF timers[k].card = 0
                       THEN videosGrid
                       ELSE [videosGrid EXCEPT ![timers[k].card].playing = FALSE]
    /\ UNCHANGED << pc, storage, themeAttr, toggleText, toggleTitle,
                    selectedCategory, videos, searchValue, categoryList,
                    activeElement, t, lastRender,
                    sinceInput, burst, toggled >>

(***************************************************************************)
(* Theme toggle click (script.js:245).                                     *)
(***************************************************************************)
ThemeToggleClick ==
  /\ pc = "ready"
  /\ LET r == toggleTheme
     IN  /\ themeAttr' = r.attr
         /\ toggleText' = r.text
         /\ toggleTitle' = r.title
         /\ storage' = r.stored
  /\ toggled' = TRUE
  /\ UNCHANGED << pc, selectedCategory, videos, searchValue, categoryList,
                  videosGrid, activeElement, timers, t, lastRender, sinceInput, burst >>

(***************************************************************************)
(* Initialization (script.js:240-280).                                     *)
(***************************************************************************)
\* Contents of the storage entry when the page loads.
StoredThemes ==
  {null, "", "light", "dark", "blue", "constructor", "toString", "__defineGetter__"}

Init ==
  /\ pc = "start"
  /\ storage \in StoredThemes
  /\ themeAttr = null
  /\ toggleText = ""
  /\ toggleTitle = ""
  /\ selectedCategory = CATEGORIES[1]
  /\ videos = <<>>
  /\ searchValue = <<>>
  /\ categoryList = <<>>
  /\ videosGrid = <<>>
  /\ activeElement = "body"
  /\ timers = <<>>
  /\ t = 0
  /\ lastRender = [category |-> CATEGORIES[1], query |-> <<>>]
  /\ sinceInput = DebounceWait
  /\ burst = [inputs |-> 0, renders |-> 0]
  /\ toggled = FALSE

\* init() when applyTheme returns, randoms being the values Math.random
\* returns to it: the listeners are wired, the videos are generated, the
\* chips and the videos are rendered.
InitCompletes(randoms) ==
  /\ pc = "start"
  /\ isRandomStream(randoms)
  /\ LET r == applyTheme(orLight(storage))
     IN  /\ ~r.threw
         /\ themeAttr' = r.attr
         /\ toggleText' = r.text
         /\ toggleTitle' = r.title
         /\ storage' = r.stored
  /\ videos' = generateVideos(VIDEO_COUNT, randoms)
  /\ categoryList' = renderCategories(selectedCategory)
  /\ videosGrid' = renderVideos(videos', selectedCategory, searchValue)
  /\ lastRender' = [category |-> selectedCategory, query |-> searchValue]
  /\ pc' = "ready"
  /\ UNCHANGED << selectedCategory, searchValue, activeElement, timers,
                  t, sinceInput, burst, toggled >>

\* init() when applyTheme throws: the error leaves init() after the attribute
\* was written; nothing is wired, generated or rendered.
InitThrows ==
  /\ pc = "start"
  /\ LET r == applyTheme(orLight(storage))
     IN  /\ r.threw
         /\ themeAttr' = r.attr
  /\ pc' = "aborted"
  /\ UNCHANGED << storage, toggleText, toggleTitle, selectedCategory, videos,
                  searchValue, categoryList, videosGrid, activeElement, timers,
                  t, lastRender, sinceInput, burst, toggled >>

\* The handlers that call setTimeout, while fewer than n timers are pending.
CardClickEvent(n) ==
  /\ Len(timers) < n
  /\ \E p \in 1..MaxCardPos : CardClick(p)

CardKeydownEvent(n) ==
  \E p \in 1..MaxCardPos : \E key \in Keys :
    /\ (key = Enter \/ key = Space) => Len(timers) < n
    /\ CardKeydown(p, key)

InputEvent(n, texts) ==
  /\ Len(timers) < n
  /\ \E value \in texts : SearchInput(value)

\* Time passes: by d ms, or to the moment the next timer is due.
TimePasses(steps) == timers # <<>> /\ \E d \in steps \cup {minRemaining} : Tick(d)

\* The page loaded without a stored theme.
InitDefaultTheme == Init /\ storage = null

\* Every handler and timer callback of the page, loaded without a stored
\* theme.  Time advances from one due timer to the next.
Next ==
  \/ \E randoms \in SampleStreams : InitCompletes(randoms)
  \/ ThemeToggleClick
  \/ \E i \in 1..Len(CATEGORIES) : ChipClick(i)
  \/ CardClickEvent(MaxPendingAll)
  \/ CardKeydownEvent(MaxPendingAll)
  \/ InputEvent(MaxPendingAll, ShortQueries)
  \/ \E key \in Keys : SearchKeydown(key)
  \/ SearchBtnClick
  \/ \E key \in Keys : DocumentKeydown(key)
  \/ TimePasses({})
  \/ DebounceTimerFire
  \/ PlayingTimerFire

Spec == InitDefaultTheme /\ [][Next]_vars

\* The search: chips, search field and button, and the debounce timer, with
\* all the texts of Queries and time advancing in steps of TickMs.  The
\* theme toggle, the cards and the focus shortcut write nothing that these
\* handlers read.
NextSearch ==
  \/ \E randoms \in SampleStreams : InitCompletes(randoms)
  \/ \E i \in 1..Len(CATEGORIES) : ChipClick(i)
  \/ InputEvent(MaxPending, Queries)
  \/ \E key \in {Enter, <<"a">>} : SearchKeydown(key)
  \/ SearchBtnClick
  \/ TimePasses({TickMs})
  \/ DebounceTimerFire

SpecSearch == InitDefaultTheme /\ [][NextSearch]_vars

\* The cards: clicks and key presses on a card, its revert timers, the focus
\* shortcut, and the chip clicks that replace the cards, with time advancing
\* in steps of TickMs.
NextCards ==
  \/ \E randoms \in SampleStreams : InitCompletes(randoms)
  \/ \E i \in 1..Len(CATEGORIES) : ChipClick(i)
  \/ CardClickEvent(MaxPending)
  \/ CardKeydownEvent(MaxPending)
  \/ \E key \in Keys : DocumentKeydown(key)
  \/ TimePasses({TickMs})
  \/ PlayingTimerFire

SpecCards == InitDefaultTheme /\ [][NextCards]_vars

\* The theme: every content of the storage entry at load, and the toggle,
\* beside the chips and the search button.  No other handler reads or
\* writes the attribute, the toggle or the storage entry.
NextTheme ==
  \/ \E randoms \in SampleStreams : InitCompletes(randoms)
  \/ InitThrows
  \/ ThemeToggleClick
  \/ \E i \in 1..Len(CATEGORIES) : ChipClick(i)
  \/ SearchBtnClick

SpecTheme == Init /\ [][NextTheme]_vars

(***************************************************************************)
(* Properties.                                                             *)
(***************************************************************************)
\* The cards and the messages in the grid.
cards == SelectSeq(videosGrid, LAMBDA e : e.tag = "article")
messages == SelectSeq(videosGrid, LAMBDA e : e.tag = "p")

\* The ids of the records the cards show, in the order of the cards.
shownIds == [k \in 1..Len(cards) |-> cards[k].video]

idsOf(list) == [k \in 1..Len(list) |-> list[k].id]

debouncePending == {k \in 1..Len(timers) : timers[k].kind = "debounce"}

\* Record v is selected by category C and search text Q.
matches(v, C, Q) ==
  /\ C = CATEGORIES[1] \/ v.category = C
  /\ \/ Q = <<>>
     \/ LET q == trim(toLowerCase(Q))
        IN  \/ includes(toLowerCase(v.title), q)
            \/ includes(toLowerCase(v.channel), q)
            \/ includes(toLowerCase(v.category), q)

\* C1: the list renderVideos displays is the sub-sequence of videos, in
\* the order of videos, of exactly the records that the category and the
\* search text read by that render select: every selected record has a card,
\* every card shows a selected record, and the cards follow the order of
\* generation.
RenderShowsExactlyTheMatches ==
  pc = "ready" =>
    /\ \A i \in 1..Len(videos) :
         matches(videos[i], lastRender.category, lastRender.query)
           <=> \E k \in 1..Len(cards) : cards[k].video = videos[i].id
    /\ \A k \in 1..Len(cards) : \E i \in 1..Len(videos) : videos[i].id = cards[k].video
    /\ \A k \in 1..Len(cards) : \A l \in 1..Len(cards) :
         k < l => cards[k].video < cards[l].video

\* C1 witness: a render under a category other than "All" and a non-empty
\* text showed some records of the category and left others of it out.
RenderedProperSubsetOfCategory ==
  /\ pc = "ready"
  /\ lastRender.category # CATEGORIES[1]
  /\ trim(lastRender.query) # <<>>
  /\ Len(cards) >= 1
  /\ \E i \in 1..Len(videos) :
       /\ videos[i].category = lastRender.category
       /\ \A k \in 1..Len(cards) : cards[k].video # videos[i].id

\* Some field of the record contains text q, compared in lower case.
someFieldContains(v, q) ==
  \/ includes(toLowerCase(v.title), toLowerCase(q))
  \/ includes(toLowerCase(v.channel), toLowerCase(q))
  \/ includes(toLowerCase(v.category), toLowerCase(q))

\* C2 as stated: under a category other than "All", every record shown has
\* that category and a title, channel or category containing the search text
\* itself, leading and trailing white space included, case-insensitively.
ShownContainQueryItself ==
  (pc = "ready" /\ lastRender.category # CATEGORIES[1]) =>
    \A k \in 1..Len(cards) :
      LET v == videos[cards[k].video + 1]
      IN  /\ v.category = lastRender.category
          /\ someFieldContains(v, lastRender.query)

\* C2 amended: under a category other than "All", every record shown has
\* that category and a title, channel or category containing the trimmed
\* search text, case-insensitively.
ShownContainTrimmedQuery ==
  (pc = "ready" /\ lastRender.category # CATEGORIES[1]) =>
    \A k \in 1..Len(cards) :
      LET v == videos[cards[k].video + 1]
      IN  /\ v.category = lastRender.category
          /\ someFieldContains(v, trim(lastRender.query))

\* C2 witness: a render under a category other than "All" and a text padded
\* with white space showed at least one record.
RenderedPaddedQuery ==
  /\ pc = "ready"
  /\ lastRender.category # CATEGORIES[1]
  /\ lastRender.query # <<>>
  /\ trim(lastRender.query) # lastRender.query
  /\ trim(lastRender.query) # <<>>
  /\ Len(cards) >= 1

\* C3: at most one debounce callback is pending; the pending one is the one
\* the last input event scheduled, it becomes due DebounceWait after that
\* event and not before, and the burst has caused no render yet; once the
\* callback of a burst has run, the burst has caused exactly one render.
DebounceCoalescesBurst ==
  /\ Cardinality(debouncePending) <= 1
  /\ \A k \in debouncePending :
       /\ timers[k].id = t
       /\ timers[k].remaining = DebounceWait - sinceInput
       /\ burst.renders = 0
  /\ (debouncePending = {} /\ burst.inputs >= 1) => burst.renders = 1

\* C3 witness: a burst of at least two input events has been followed by its
\* one debounced render.
BurstOfTwoRenderedOnce ==
  /\ burst.inputs >= 2
  /\ burst.renders = 1
  /\ debouncePending = {}
  /\ sinceInput = DebounceWait

\* C4: once init() has run, the stored theme equals the data-theme attribute,
\* and every click on the toggle turns light into dark and dark into light.
ThemePersistedAndFlipped ==
  [][ /\ pc' # "start" => storage' = themeAttr'
      /\ ThemeToggleClick =>
           /\ themeAttr = "light" => themeAttr' = "dark"
           /\ themeAttr = "dark" => themeAttr' = "light" ]_vars

\* C4 witness: the toggle has been clicked, and dark is applied and stored.
ToggledToDark ==
  /\ pc = "ready"
  /\ toggled
  /\ themeAttr = "dark"
  /\ storage = "dark"

\* C5: after a render the grid holds exactly one message and no card when
\* the filtered list is empty, and otherwise no message and one card per
\* record of the filtered list, in its order; under "All" and the empty text
\* the cards are the VIDEO_COUNT generated records in the order of generation.
GridIsMessageOrCards ==
  pc = "ready" =>
    LET list == filteredList(videos, lastRender.category, lastRender.query)
    IN  /\ Len(videosGrid) = Len(messages) + Len(cards)
        /\ Len(list) = 0 => (Len(messages) = 1 /\ Len(cards) = 0)
        /\ Len(list) > 0 => (Len(messages) = 0 /\ shownIds = idsOf(list))
        /\ (Len(messages) = 1 /\ Len(cards) = 0) => Len(list) = 0
        /\ videosGrid # <<>>
        /\ (lastRender.category = CATEGORIES[1] /\ lastRender.query = <<>>) =>
             shownIds = [k \in 1..VIDEO_COUNT |-> k - 1]

\* C5 witness: category "Gaming" and a text no record contains: the grid is
\* the message alone.
GamingNoMatchShowsMessage ==
  /\ pc = "ready"
  /\ lastRender.category = CATEGORIES[3]
  /\ lastRender.query = <<"x","y","z","-","n","o","-","m","a","t","c","h">>
  /\ \E i \in 1..Len(videos) : videos[i].category = CATEGORIES[3]
  /\ videosGrid = << [tag |-> "p", className |-> "muted"] >>

\* C6 as stated: whatever the storage entry holds, init() runs to completion:
\* the videos are generated and the chips and the videos are rendered, and
\* the theme applied is the stored one, light standing for an absent entry.
InitNeverFatal ==
  pc # "start" =>
    /\ pc = "ready"
    /\ Len(videos) = VIDEO_COUNT
    /\ Len(categoryList) = Len(CATEGORIES)
    /\ videosGrid # <<>>
    /\ storage # null
    /\ themeAttr = storage

\* C7: after init(), no step changes the videos list, which keeps its
\* VIDEO_COUNT records, and selectedCategory stays one of CATEGORIES.
VideosAndCategoryFramed ==
  [][ pc = "ready" =>
        /\ videos' = videos
        /\ Len(videos') = VIDEO_COUNT
        /\ \E i \in 1..Len(CATEGORIES) : selectedCategory' = CATEGORIES[i] ]_vars

\* C7 witness: a chip was clicked, a text was typed and rendered by the
\* debounce callback, the theme was toggled and a card is playing.
AllKindsOfEventsHappened ==
  /\ pc = "ready"
  /\ selectedCategory # CATEGORIES[1]
  /\ searchValue # <<>>
  /\ burst.renders >= 1
  /\ toggled
  /\ \E k \in 1..Len(cards) : cards[k].playing

\* C8 as stated: a card is playing from a click until the revert timer that
\* click scheduled fires: a card of the grid with a pending revert timer that
\* is not yet due is playing.
PlayingUntilOwnTimerFires ==
  \A k \in 1..Len(timers) :
    (timers[k].kind = "playing" /\ timers[k].card # 0 /\ timers[k].remaining > 0) =>
      videosGrid[timers[k].card].playing

\* C9: once the chips are rendered, exactly one chip is active, the one of
\* selectedCategory, and the videos on screen were rendered for it.
OneActiveChipIsSelected ==
  pc = "ready" =>
    /\ Len(categoryList) = Len(CATEGORIES)
    /\ Cardinality({i \in 1..Len(categoryList) : categoryList[i].active}) = 1
    /\ \A i \in 1..Len(categoryList) :
         /\ categoryList[i].category = CATEGORIES[i]
         /\ categoryList[i].active <=> (categoryList[i].category = selectedCategory)
    /\ lastRender.category = selectedCategory

\* C9 witness: the "Gaming" chip was clicked and is the active one.
GamingChipActive ==
  /\ pc = "ready"
  /\ selectedCategory = CATEGORIES[3]
  /\ categoryList[3].active
  /\ ~categoryList[1].active

\* C10: whenever no debounce callback is pending, the cards on screen are
\* the filter result for the current selectedCategory and search text.
FreshUnlessDebouncePending ==
  debouncePending = {} =>
    shownIds = idsOf(filteredList(videos, selectedCategory, searchValue))

\* C10 witness: a typed text was rendered by the debounce callback, under a
\* category other than "All", and some cards are shown.
DebounceRestoredAgreement ==
  /\ pc = "ready"
  /\ debouncePending = {}
  /\ burst.renders = 1
  /\ searchValue # <<>>
  /\ lastRender.query = searchValue
  /\ selectedCategory # CATEGORIES[1]
  /\ Len(cards) >= 1

====
